---- MODULE Spec2Model ----
(***************************************************************************)
(* Model of the connectivity checker of elulib-mobile                      *)
(* (src-tauri/src/connectivity.rs, constants.rs, commands.rs).             *)
(*                                                                         *)
(* Every call of check_connectivity() / check_connectivity_quick() is an   *)
(* async task.  A task is suspended at its .await points: the probe        *)
(* (check_connectivity_once().await) and the backoff sleep                 *)
(* (tokio::time::sleep(delay).await).  One action of the model is the code *)
(* between two such points.  Calls are indexed by a caller id; what each   *)
(* call has observed (probe results, sleeps started) is recorded per call. *)
(***************************************************************************)
EXTENDS Integers, Sequences, FiniteSets, TLC

(* ------------------------------------------------------------------ *)
(* Program constants (constants.rs)                                   *)
(* ------------------------------------------------------------------ *)
CONNECTIVITY_TIMEOUT_SECS == 2

MAX_CONNECTIVITY_RETRIES == 2

RETRY_BASE_DELAY_MS == 500

(* ------------------------------------------------------------------ *)
(* Bounds of the model                                                *)
(* ------------------------------------------------------------------ *)
\* largest retry ceiling explored (the shipped value is MAX_CONNECTIVITY_RETRIES)
MaxRetriesCap == 3

\* connection attempts complete after 0..MaxLatencySecs seconds
MaxLatencySecs == 3

\* the caller ids; Spec runs one caller, SpecPair runs both
CallIds == {1, 2}

(* ------------------------------------------------------------------ *)
(* ConnectivityResult = Result<bool, ConnectivityError>               *)
(* ------------------------------------------------------------------ *)
\* the variants of enum ConnectivityError
ConnectivityError == {"Io", "Timeout", "MaxRetriesExceeded"}

\* the io::Error values a refused / unroutable connect produces
IoErrors == {"ConnectionRefused", "NetworkUnreachable"}

Ok(b) == [tag |-> "Ok", val |-> b, err |-> "none", detail |-> "none"]

ErrIo(e) == [tag |-> "Err", val |-> FALSE, err |-> "Io", detail |-> e]

ErrTimeout == [tag |-> "Err", val |-> FALSE, err |-> "Timeout", detail |-> "none"]

ErrMaxRetriesExceeded == [tag |-> "Err", val |-> FALSE, err |-> "MaxRetriesExceeded", detail |-> "none"]

\* a call that has not returned has no result
NoResult == [tag |-> "None", val |-> FALSE, err |-> "none", detail |-> "none"]

(* ------------------------------------------------------------------ *)
(* The network as one connection attempt sees it                      *)
(* ------------------------------------------------------------------ *)
\* TcpStream::connect completes after `latency` seconds, either with a
\* stream or with an io::Error
NetConditions ==
    [completion : {"established"} \cup IoErrors, latency : 0..MaxLatencySecs]

\* timeout(timeout_duration, TcpStream::connect(&addr)).await : the set of
\* values the race can produce.  When the connect completes exactly at the
\* deadline either side may win.
TimeoutRaceMut_NoDeadline(cond) ==
    {[elapsed |-> FALSE, completion |-> cond.completion]}

TimeoutRace(cond) ==
    LET inner == [elapsed |-> FALSE, completion |-> cond.completion]
        late  == [elapsed |-> TRUE, completion |-> "none"]
    IN  IF cond.latency < CONNECTIVITY_TIMEOUT_SECS THEN {inner}
        ELSE IF cond.latency > CONNECTIVITY_TIMEOUT_SECS THEN {late}
        ELSE {inner, late}

\* the match of check_connectivity_once on one outcome of the race
ClassifyMut_OkFalse(raced) ==
    IF raced.elapsed THEN ErrTimeout
    ELSE IF raced.completion = "established" THEN Ok(TRUE)
    ELSE Ok(FALSE)

Classify(raced) ==
    IF raced.elapsed THEN ErrTimeout
    ELSE IF raced.completion = "established" THEN Ok(TRUE)
    ELSE ErrIo(raced.completion)


(* ------------------------------------------------------------------ *)
(* check_connectivity(): the pieces of its body                       *)
(* ------------------------------------------------------------------ *)
Return(r) == [ctl |-> "return", value |-> r]

Retry == [ctl |-> "retry", value |-> NoResult]

Panic == [ctl |-> "panic", value |-> NoResult]

\* match on the first attempt (lines 102-118)
MatchFirstMut_NoShortCircuit(r) ==
    IF r = Ok(TRUE) THEN Retry
    ELSE IF r = Ok(FALSE) THEN Panic
    ELSE Retry

MatchFirstMut_PropagateErr(r) ==
    IF r = Ok(TRUE) THEN Return(Ok(TRUE))
    ELSE IF r = Ok(FALSE) THEN Panic
    ELSE IF r = ErrTimeout THEN Retry
    ELSE Return(r)

MatchFirst(r) ==
    IF r = Ok(TRUE) THEN Return(Ok(TRUE))
    ELSE IF r = Ok(FALSE) THEN Panic
    ELSE IF r = ErrTimeout THEN Retry
    ELSE Retry

\* match on a retry attempt (lines 129-147)
MatchRetryMut_NoShortCircuit(r) ==
    IF r = Ok(TRUE) THEN Retry
    ELSE IF r = Ok(FALSE) THEN Panic
    ELSE Retry

MatchRetryMut_IoGivesUp(r) ==
    IF r = Ok(TRUE) THEN Return(Ok(TRUE))
    ELSE IF r = Ok(FALSE) THEN Panic
    ELSE IF r = ErrTimeout THEN Retry
    ELSE Return(Ok(FALSE))

MatchRetry(r) ==
    IF r = Ok(TRUE) THEN Return(Ok(TRUE))
    ELSE IF r = Ok(FALSE) THEN Panic
    ELSE IF r = ErrTimeout THEN Retry
    ELSE Retry

\* x << k on u64; for the shifts the loop performs (k < MaxRetriesCap + 1)
\* the value stays far below 2^64, so no bit is shifted out
RECURSIVE Shl(_, _)
Shl(x, k) == IF k = 0 THEN x ELSE 2 * Shl(x, k - 1)

\* let delay_ms = base_delay_ms * (1 << (attempt - 1))
DelayMsMut_OffByOne(attempt) == RETRY_BASE_DELAY_MS * Shl(1, attempt)

DelayMsMut_Constant(attempt) == RETRY_BASE_DELAY_MS

DelayMs(attempt) == RETRY_BASE_DELAY_MS * Shl(1, attempt - 1)

\* for attempt in 1..=max_retries : is `attempt` still in the range
InRangeMut_OneMore(attempt, maxr) == attempt <= maxr + 1

InRangeMut_Exclusive(attempt, maxr) == attempt < maxr

InRange(attempt, maxr) == attempt <= maxr

\* the value returned after the loop (line 151)
ExhaustedMut_Err == ErrMaxRetriesExceeded

Exhausted == Ok(FALSE)

(* ------------------------------------------------------------------ *)
(* check_connectivity_quick(): Result::map over the probe's result    *)
(* ------------------------------------------------------------------ *)
QuickMapMut_ErrToFalse(r) == IF r.tag = "Ok" THEN Ok(r.val) ELSE Ok(FALSE)

QuickMapMut_ErrKindLost(r) == IF r.tag = "Ok" THEN Ok(r.val) ELSE ErrTimeout

QuickMap(r) == IF r.tag = "Ok" THEN Ok(r.val) ELSE r

(* ------------------------------------------------------------------ *)
(* commands.rs: the tauri commands map the error to a String          *)
(* ------------------------------------------------------------------ *)
\* Display of ConnectivityError (the #[error(..)] attributes)
ErrorDisplay(r) ==
    IF r.err = "Io" THEN <<"Network error: ", r.detail>>
    ELSE IF r.err = "Timeout" THEN <<"Connection timeout">>
    ELSE <<"Maximum retries exceeded">>

\* commands::check_connectivity_quick applied to the library result
command_check_connectivity_quick(r) ==
    IF r.tag = "Ok" THEN [tag |-> "Ok", val |-> r.val, msg |-> <<>>]
    ELSE [tag |-> "Err", val |-> FALSE,
          msg |-> <<"Quick connectivity check failed: ">> \o ErrorDisplay(r)]

(* ------------------------------------------------------------------ *)
(* Strings and command replies                                        *)
(* ------------------------------------------------------------------ *)
\* a String is known by which text it is and by its len() in bytes
Text(i, l) == [kind |-> "text", id |-> i, len |-> l, key |-> 0, klen |-> 0]

\* the empty string: there is only one
EmptyText == Text(0, 0)

\* a formatted message: the format string, its numeric arguments and the
\* error it wraps, if any
Msg(text, args, cause) == [text |-> text, args |-> args, cause |-> cause]

NoMsg == Msg("", <<>>, "")

\* no string (an absent argument, Option::None)
NoText == [kind |-> "none", id |-> 0, len |-> 0, key |-> 0, klen |-> 0]

\* the keystore holds nothing
NoEntry == [kind |-> "empty", id |-> 0, len |-> 0, key |-> 0, klen |-> 0]

\* Result<T, String> of a command: Ok(()) / Ok(bool) / Ok(String) / Err(msg)
OkUnit == [tag |-> "Ok", bool |-> FALSE, text |-> NoText, msg |-> NoMsg]

OkBool(b) == [tag |-> "Ok", bool |-> b, text |-> NoText, msg |-> NoMsg]

OkText(t) == [tag |-> "Ok", bool |-> FALSE, text |-> t, msg |-> NoMsg]

ErrMsg(m) == [tag |-> "Err", bool |-> FALSE, text |-> NoText, msg |-> m]

\* no command has replied
NoReply == [tag |-> "None", bool |-> FALSE, text |-> NoText, msg |-> NoMsg]

(* ------------------------------------------------------------------ *)
(* Time and resources of one probe                                    *)
(* ------------------------------------------------------------------ *)
\* how long timeout(..).await takes, in ms: the connect's latency, cut off
\* at timeout_duration
ProbeDurationMsMut_NoCutOff(cond, raced) == cond.latency * 1000

ProbeDurationMs(cond, raced) ==
    IF raced.elapsed THEN CONNECTIVITY_TIMEOUT_SECS * 1000
    ELSE cond.latency * 1000

\* one probe under cond: its result and its duration
ProbeOutcomes(cond) ==
    {[result |-> Classify(raced), duration |-> ProbeDurationMs(cond, raced)] :
        raced \in TimeoutRace(cond)}

\* check_connectivity_once(): the results one probe can return under cond
check_connectivity_once(cond) == {o.result : o \in ProbeOutcomes(cond)}

\* connection handles still held once check_connectivity_once has returned
\* r: the stream is bound to _stream and dropped at the end of its arm, the
\* Timeout future (connect and timer) is dropped when the .await completes
HandlesKeptMut_StreamLeaks(r) == IF r = Ok(TRUE) THEN 1 ELSE 0

HandlesKept(r) == 0

\* connection handles left when the future of a call holding h handles is
\* dropped: the probe is awaited in place, so it is dropped with the call
AfterDropMut_Detached(h) == h

AfterDrop(h) == 0

\* the locals of a call (attempt, delay) live in that call's own future
SlotMut_Shared(c) == 1

Slot(c) == c

\* what a call does first: the first attempt, with no delay before it
FirstAttemptEventsMut_DelayFirst == <<"wait_start", "wait_end", "attempt_start">>

FirstAttemptEvents == <<"attempt_start">>

(* ------------------------------------------------------------------ *)
(* State                                                              *)
(* ------------------------------------------------------------------ *)
VARIABLES
    callers,      \* the callers that exist in this run
    max_retries,  \* the retry ceiling the build was configured with
    net,          \* the network conditions a connect can meet in this run
    fn,           \* fn[c]: which function caller c is running
    pc,           \* pc[c]: where the call is suspended
    attempt,      \* attempt[c]: the loop variable (0 during the first attempt)
    probes,       \* probes[c]: results of the probes of this call, in order
    sleeps,       \* sleeps[c]: delay_ms of the sleeps this call started
    result,       \* result[c]: the value the call returned
    lastcond,     \* lastcond[c]: the condition the latest probe of c met
    elapsed,      \* elapsed[c]: ms the call has spent in probes and sleeps
    events,       \* events[c]: what the call did, in order
    handles,      \* handles[c]: connection handles (sockets) the call holds
    timers,       \* timers[c]: live timers (timeout or sleep) of the call
    platform,     \* the target_os the build was compiled for
    keystore,     \* the entry the keystore plugin holds
    last,         \* the latest keychain / notification command and its result
    app,          \* how far run() has got
    startup,      \* the background connectivity check spawned by setup
    calc          \* the delay computation of the retry loop, step by step

\* the state outside the connectivity module
appVars == <<platform, keystore, last, app, startup, calc>>

vars == <<callers, max_retries, net, fn, pc, attempt, probes, sleeps, result,
          lastcond, elapsed, events, handles, timers, appVars>>

NoCond == [completion |-> "none", latency |-> 0]

\* the conditions of a run with two callers: the connect completes at once
\* (with a stream or an error) or hangs past the timeout
PairNetConditions ==
    {cond \in NetConditions :
        \/ cond.latency = 0
        \/ cond.latency = MaxLatencySecs /\ cond.completion = "established"}

Fresh ==
    /\ fn = [c \in CallIds |-> "none"]
    /\ pc = [c \in CallIds |-> "idle"]
    /\ attempt = [c \in CallIds |-> 0]
    /\ probes = [c \in CallIds |-> <<>>]
    /\ sleeps = [c \in CallIds |-> <<>>]
    /\ result = [c \in CallIds |-> NoResult]
    /\ lastcond = [c \in CallIds |-> NoCond]
    /\ elapsed = [c \in CallIds |-> 0]
    /\ events = [c \in CallIds |-> <<>>]
    /\ handles = [c \in CallIds |-> 0]
    /\ timers = [c \in CallIds |-> 0]

\* the 64 bits of a u64 that is zero, least significant first
U64_BITS == 64

Zero64 == [i \in 0..(U64_BITS - 1) |-> 0]

\* no delay is being computed
NoCalc ==
    [stage |-> "none", build |-> "none", n |-> 0, shifted |-> Zero64,
     delay |-> Zero64, prev |-> Zero64, shift_overflow |-> FALSE,
     mul_overflow |-> FALSE]

\* no command has been invoked
NoCommand ==
    [cmd |-> "none", key |-> NoText, value |-> NoText, title |-> NoText,
     body |-> NoText, icon |-> NoText, called |-> FALSE, result |-> NoReply]

\* the application part is not looked at: mobile build, empty keystore
AppIdle ==
    /\ platform = "ios"
    /\ keystore = NoEntry
    /\ last = NoCommand
    /\ app = "none"
    /\ startup = "none"
    /\ calc = NoCalc

Init ==
    /\ callers = {1}
    /\ max_retries \in 0..MaxRetriesCap
    /\ net = NetConditions
    /\ Fresh
    /\ AppIdle

InitPair ==
    /\ callers = CallIds
    /\ max_retries \in 0..MaxRetriesCap
    /\ net = PairNetConditions
    /\ Fresh
    /\ AppIdle

(* ------------------------------------------------------------------ *)
(* Actions                                                            *)
(* ------------------------------------------------------------------ *)
\* a caller invokes check_connectivity(); the body runs up to the first
\* check_connectivity_once().await: the connect and its timeout are started
CallCheckConnectivity(c) ==
    /\ pc[c] \in {"idle", "returned"}
    /\ fn' = [fn EXCEPT ![c] = "check_connectivity"]
    /\ pc' = [pc EXCEPT ![c] = "first_attempt"]
    /\ attempt' = [attempt EXCEPT ![c] = 0]
    /\ probes' = [probes EXCEPT ![c] = <<>>]
    /\ sleeps' = [sleeps EXCEPT ![c] = <<>>]
    /\ result' = [result EXCEPT ![c] = NoResult]
    /\ lastcond' = [lastcond EXCEPT ![c] = NoCond]
    /\ elapsed' = [elapsed EXCEPT ![c] = 0]
    /\ events' = [events EXCEPT ![c] = FirstAttemptEvents]
    /\ handles' = [handles EXCEPT ![c] = @ + 1]
    /\ timers' = [timers EXCEPT ![c] = @ + 1]
    /\ UNCHANGED <<appVars, callers, max_retries, net>>

\* control reaches the head of `for attempt in 1..=max_retries` with the
\* next value n: either the body starts (delay computed, sleep started) or
\* the loop is over and Ok(false) is returned
LoopHead(c, n) ==
    IF InRange(n, max_retries)
    THEN /\ attempt' = [attempt EXCEPT ![Slot(c)] = n]
         /\ sleeps' = [sleeps EXCEPT ![Slot(c)] = Append(@, DelayMs(n))]
         /\ pc' = [pc EXCEPT ![c] = "sleep"]
         /\ UNCHANGED result
    ELSE /\ result' = [result EXCEPT ![c] = Exhausted]
         /\ pc' = [pc EXCEPT ![c] = "returned"]
         /\ UNCHANGED <<attempt, sleeps>>

\* what follows a match: return, panic (unreachable!()), or go on to the loop
AfterMatch(c, m, n) ==
    IF m.ctl = "return"
    THEN /\ result' = [result EXCEPT ![c] = m.value]
         /\ pc' = [pc EXCEPT ![c] = "returned"]
         /\ UNCHANGED <<attempt, sleeps>>
    ELSE IF m.ctl = "panic"
    THEN /\ pc' = [pc EXCEPT ![c] = "panicked"]
         /\ UNCHANGED <<attempt, sleeps, result>>
    ELSE LoopHead(c, n)

\* the bookkeeping of a completed probe o met under cond: the time it took,
\* the handle and timer it gives back, and a sleep timer if a sleep started
ProbeDone(c, cond, o) ==
    /\ lastcond' = [lastcond EXCEPT ![c] = cond]
    /\ elapsed' = [elapsed EXCEPT ![c] = @ + o.duration]
    /\ handles' = [handles EXCEPT ![c] = @ - 1 + HandlesKept(o.result)]
    /\ timers' = [timers EXCEPT ![c] =
                     @ - 1 + (IF pc'[c] = "sleep" THEN 1 ELSE 0)]
    /\ events' = [events EXCEPT ![c] =
                     @ \o <<IF o.result.tag = "Ok" THEN "attempt_ok"
                                                   ELSE "attempt_fail">>
                       \o (IF pc'[c] = "sleep" THEN <<"wait_start">> ELSE <<>>)]

\* the first probe completes (lines 102-118, then the loop head)
FirstAttemptCompletes(c) ==
    /\ pc[c] = "first_attempt"
    /\ \E cond \in net : \E o \in ProbeOutcomes(cond) :
          /\ probes' = [probes EXCEPT ![c] = Append(@, o.result)]
          /\ AfterMatch(c, MatchFirst(o.result), 1)
          /\ ProbeDone(c, cond, o)
    /\ UNCHANGED <<appVars, callers, max_retries, net, fn>>

\* tokio::time::sleep(delay).await is over; the retry probe starts
SleepCompletes(c) ==
    /\ pc[c] = "sleep"
    /\ pc' = [pc EXCEPT ![c] = "retry_attempt"]
    /\ elapsed' = [elapsed EXCEPT ![c] = @ + sleeps[c][Len(sleeps[c])]]
    /\ events' = [events EXCEPT ![c] = @ \o <<"wait_end", "attempt_start">>]
    /\ handles' = [handles EXCEPT ![c] = @ + 1]
    /\ timers' = [timers EXCEPT ![c] = @ - 1 + 1]
    /\ UNCHANGED <<appVars, callers, max_retries, net, fn, attempt, probes, sleeps,
                   result, lastcond>>

\* a retry probe completes (lines 129-147, then the loop head)
RetryAttemptCompletes(c) ==
    /\ pc[c] = "retry_attempt"
    /\ \E cond \in net : \E o \in ProbeOutcomes(cond) :
          /\ probes' = [probes EXCEPT ![c] = Append(@, o.result)]
          /\ AfterMatch(c, MatchRetry(o.result), attempt[c] + 1)
          /\ ProbeDone(c, cond, o)
    /\ UNCHANGED <<appVars, callers, max_retries, net, fn>>

\* a caller invokes check_connectivity_quick(); it runs up to the .await
CallCheckConnectivityQuick(c) ==
    /\ pc[c] \in {"idle", "returned"}
    /\ fn' = [fn EXCEPT ![c] = "check_connectivity_quick"]
    /\ pc' = [pc EXCEPT ![c] = "quick_attempt"]
    /\ attempt' = [attempt EXCEPT ![c] = 0]
    /\ probes' = [probes EXCEPT ![c] = <<>>]
    /\ sleeps' = [sleeps EXCEPT ![c] = <<>>]
    /\ result' = [result EXCEPT ![c] = NoResult]
    /\ lastcond' = [lastcond EXCEPT ![c] = NoCond]
    /\ elapsed' = [elapsed EXCEPT ![c] = 0]
    /\ events' = [events EXCEPT ![c] = <<"attempt_start">>]
    /\ handles' = [handles EXCEPT ![c] = @ + 1]
    /\ timers' = [timers EXCEPT ![c] = @ + 1]
    /\ UNCHANGED <<appVars, callers, max_retries, net>>

\* the single probe of the quick check completes; .map(..) gives the result
QuickAttemptCompletes(c) ==
    /\ pc[c] = "quick_attempt"
    /\ pc' = [pc EXCEPT ![c] = "returned"]
    /\ \E cond \in net : \E o \in ProbeOutcomes(cond) :
          /\ probes' = [probes EXCEPT ![c] = Append(@, o.result)]
          /\ result' = [result EXCEPT ![c] = QuickMap(o.result)]
          /\ ProbeDone(c, cond, o)
    /\ UNCHANGED <<appVars, callers, max_retries, net, fn, attempt, sleeps>>

\* the runtime drops the future of a suspended call (the caller gave up):
\* everything the future owns is dropped with it, and no code of the call
\* runs afterwards
Cancel(c) ==
    /\ pc[c] \in {"first_attempt", "sleep", "retry_attempt", "quick_attempt"}
    /\ pc' = [pc EXCEPT ![c] = "cancelled"]
    /\ handles' = [handles EXCEPT ![c] = AfterDrop(@)]
    /\ timers' = [timers EXCEPT ![c] = 0]
    /\ events' = [events EXCEPT ![c] = Append(@, "cancelled")]
    /\ UNCHANGED <<appVars, callers, max_retries, net, fn, attempt, probes, sleeps,
                   result, lastcond, elapsed>>

Next ==
    \/ \E c \in callers : CallCheckConnectivity(c)
    \/ \E c \in callers : FirstAttemptCompletes(c)
    \/ \E c \in callers : SleepCompletes(c)
    \/ \E c \in callers : RetryAttemptCompletes(c)
    \/ \E c \in callers : CallCheckConnectivityQuick(c)
    \/ \E c \in callers : QuickAttemptCompletes(c)
    \/ \E c \in callers : Cancel(c)

Spec == Init /\ [][Next]_vars

SpecPair == InitPair /\ [][Next]_vars

(* ------------------------------------------------------------------ *)
(* Vocabulary of the properties                                       *)
(* ------------------------------------------------------------------ *)
IsFailure(r) == r.tag = "Err" /\ r.err \in {"Io", "Timeout"}

PatientReturned(c) == fn[c] = "check_connectivity" /\ pc[c] = "returned"

QuickReturned(c) == fn[c] = "check_connectivity_quick" /\ pc[c] = "returned"

AllFailed(s) == \A i \in 1..Len(s) : IsFailure(s[i])

\* Io and Timeout both read as "Failed": the shape of a probe history
Shape(s) == [i \in 1..Len(s) |-> IF IsFailure(s[i]) THEN "Failed" ELSE s[i].tag]

\* where a call stands between probes: asleep before a retry, or at it
Phase(c) == IF pc[c] = "sleep" THEN "retry_attempt" ELSE pc[c]

HasKind(s, k) == \E i \in 1..Len(s) : s[i].err = k

(* ------------------------------------------------------------------ *)
(* C1..C10                                                            *)
(* ------------------------------------------------------------------ *)

\* C1: when all max_retries+1 probes of a check_connectivity() call have
\* failed, with any mix of Io and Timeout, the call has returned Ok(false),
\* not Err.
C1_ExhaustionIsOkFalse ==
    \A c \in callers :
        (/\ fn[c] = "check_connectivity"
         /\ Len(probes[c]) = max_retries + 1
         /\ AllFailed(probes[c]))
        => (pc[c] = "returned" /\ result[c] = Ok(FALSE))

C1_Witness ==
    \E c \in callers :
        /\ PatientReturned(c)
        /\ max_retries = MAX_CONNECTIVITY_RETRIES
        /\ Len(probes[c]) = max_retries + 1
        /\ AllFailed(probes[c])
        /\ HasKind(probes[c], "Io") /\ HasKind(probes[c], "Timeout")

\* C2: with max_retries = N, one check_connectivity() call invokes the probe
\* at most N+1 times, whatever the probes return.
C2_BoundedAttempts ==
    \A c \in callers :
        fn[c] = "check_connectivity" =>
            /\ Len(probes[c]) <= max_retries + 1
            /\ pc[c] \in {"first_attempt", "retry_attempt"}
                  => Len(probes[c]) <= max_retries

C2_Witness ==
    \E c \in callers :
        /\ PatientReturned(c)
        /\ max_retries = MAX_CONNECTIVITY_RETRIES
        /\ Len(probes[c]) = max_retries + 1

\* C3: if the first probe of check_connectivity() is Reachable, the call has
\* returned Ok(true) after exactly one probe and without starting any sleep.
C3_FirstSuccessShortCircuits ==
    \A c \in callers :
        (/\ fn[c] = "check_connectivity"
         /\ Len(probes[c]) >= 1
         /\ probes[c][1] = Ok(TRUE))
        => /\ pc[c] = "returned"
           /\ result[c] = Ok(TRUE)
           /\ Len(probes[c]) = 1
           /\ sleeps[c] = <<>>

C3_Witness ==
    \E c \in callers :
        /\ PatientReturned(c)
        /\ max_retries > 0
        /\ probes[c] = <<Ok(TRUE)>>
        /\ result[c] = Ok(TRUE)

\* C4: the first attempt (initial or retry) that is Reachable ends the call
\* with Ok(true): it is the last probe of the call, and no sleep was started
\* after it, however much retry budget remains.
C4_SuccessEndsTheCall ==
    \A c \in callers :
        fn[c] = "check_connectivity" =>
            \A i \in 1..Len(probes[c]) :
                probes[c][i] = Ok(TRUE) =>
                    /\ i = Len(probes[c])
                    /\ Len(sleeps[c]) = i - 1
                    /\ pc[c] = "returned"
                    /\ result[c] = Ok(TRUE)

C4_Witness ==
    \E c \in callers :
        /\ PatientReturned(c)
        /\ Len(probes[c]) >= 2
        /\ Len(probes[c]) < max_retries + 1
        /\ probes[c][Len(probes[c])] = Ok(TRUE)

ProbeResults == {Ok(TRUE), ErrTimeout} \cup {ErrIo(e) : e \in IoErrors}

C7_ClassificationTotality ==
    /\ \A cond \in NetConditions :
          /\ check_connectivity_once(cond) # {}
          /\ check_connectivity_once(cond) \subseteq ProbeResults
    /\ \A c \in callers : \A i \in 1..Len(probes[c]) :
          /\ probes[c][i] \in ProbeResults
          /\ probes[c][i] # Ok(FALSE)
          /\ probes[c][i] # ErrMaxRetriesExceeded

C7_Witness ==
    \E c \in callers :
        /\ Len(probes[c]) = 3
        /\ probes[c][1] = ErrTimeout
        /\ probes[c][2].err = "Io"
        /\ probes[c][3] = Ok(TRUE)

\* C8: the sleep before retry attempt n is exactly base_delay * 2^(n-1);
\* with base_delay = 500 ms: 500 ms, 1000 ms, 2000 ms for retries 1, 2, 3.
C8_BackoffSchedule ==
    \A c \in callers :
        fn[c] = "check_connectivity" =>
            /\ \A n \in 1..Len(sleeps[c]) :
                  /\ sleeps[c][n] = RETRY_BASE_DELAY_MS * 2^(n - 1)
                  /\ n = 1 => sleeps[c][n] = 500
                  /\ n = 2 => sleeps[c][n] = 1000
                  /\ n = 3 => sleeps[c][n] = 2000
            /\ Len(sleeps[c]) = attempt[c]

C8_Witness ==
    \E c \in callers :
        /\ fn[c] = "check_connectivity"
        /\ pc[c] = "retry_attempt"
        /\ attempt[c] = 3
        /\ sleeps[c] = <<500, 1000, 2000>>

\* C9: two check_connectivity() runs whose probe histories differ only in
\* the kind of each failure (Io or Timeout), neither of them cancelled, are
\* at the same point, have started the same sleeps and have the same result.
C9_FailureKindsAlike ==
    \A c1 \in callers : \A c2 \in callers :
        (/\ fn[c1] = "check_connectivity"
         /\ fn[c2] = "check_connectivity"
         /\ pc[c1] # "cancelled" /\ pc[c2] # "cancelled"
         /\ Shape(probes[c1]) = Shape(probes[c2]))
        => /\ Phase(c1) = Phase(c2)
           /\ sleeps[c1] = sleeps[c2]
           /\ result[c1] = result[c2]

C9_Witness ==
    /\ callers = CallIds
    /\ PatientReturned(1) /\ PatientReturned(2)
    /\ Len(probes[1]) = 3
    /\ Shape(probes[1]) = Shape(probes[2])
    /\ \A i \in 1..3 : probes[1][i].err = "Io" /\ probes[2][i].err = "Timeout"
    /\ result[1] = result[2]

\* C10: check_connectivity() never returns Err: each call ends in Ok(true)
\* or Ok(false), and MaxRetriesExceeded is never returned.
C10_PatientNeverErr ==
    \A c \in callers :
        fn[c] = "check_connectivity" =>
            /\ result[c].tag # "Err"
            /\ result[c] # ErrMaxRetriesExceeded
            /\ pc[c] = "returned" => result[c] \in {Ok(TRUE), Ok(FALSE)}

C10_Witness ==
    \E c \in callers :
        /\ PatientReturned(c)
        /\ Len(probes[c]) >= 2
        /\ probes[c][1].err = "Io"
        /\ IsFailure(probes[c][Len(probes[c])])
        /\ result[c] = Ok(FALSE)

(* ------------------------------------------------------------------ *)
(* C11..C20                                                           *)
(* ------------------------------------------------------------------ *)
RECURSIVE SumSeq(_)
SumSeq(s) == IF s = <<>> THEN 0 ELSE s[1] + SumSeq(Tail(s))

\* sum over n = 1..N of base_delay * 2^(n-1)
RECURSIVE BackoffTotal(_)
BackoffTotal(N) ==
    IF N = 0 THEN 0 ELSE BackoffTotal(N - 1) + RETRY_BASE_DELAY_MS * 2^(N - 1)

AttemptPcs == {"first_attempt", "retry_attempt", "quick_attempt"}

AttemptEnds == {"attempt_ok", "attempt_fail"}

AllTimeout(s) == \A i \in 1..Len(s) : s[i] = ErrTimeout

\* C11: in check_connectivity() every backoff wait lies strictly between a
\* completed failed attempt and the start of the next attempt: the call
\* starts with an attempt, a wait starts only right after a failed attempt,
\* the next attempt starts only when that wait is over, nothing but the
\* attempt's end follows an attempt's start, and a returned call ends with
\* an attempt, having waited once between consecutive attempts.
C11_WaitsBetweenAttempts ==
    \A c \in callers :
        fn[c] = "check_connectivity" =>
            LET e == events[c]
                n == Len(events[c])
            IN  /\ n >= 1 /\ e[1] = "attempt_start"
                /\ \A i \in 1..n :
                      /\ e[i] = "wait_start" =>
                            /\ i > 1 /\ e[i - 1] = "attempt_fail"
                            /\ i < n => e[i + 1] \in {"wait_end", "cancelled"}
                      /\ e[i] = "wait_end" =>
                            /\ i > 1 /\ e[i - 1] = "wait_start"
                            /\ i < n /\ e[i + 1] = "attempt_start"
                      /\ e[i] = "attempt_start" =>
                            /\ i > 1 => e[i - 1] = "wait_end"
                            /\ i < n => e[i + 1] \in AttemptEnds \cup {"cancelled"}
                /\ pc[c] = "sleep" => handles[c] = 0
                /\ pc[c] \in AttemptPcs => timers[c] = 1
                /\ pc[c] = "returned" =>
                      /\ e[n] \in AttemptEnds
                      /\ Len(sleeps[c]) = Len(probes[c]) - 1

C11_Witness ==
    \E c \in callers :
        /\ PatientReturned(c)
        /\ Len(probes[c]) = 3
        /\ Len(sleeps[c]) = 2
        /\ events[c][3] = "wait_start" /\ events[c][7] = "wait_start"

ScenarioB == <<ErrTimeout, ErrTimeout, Ok(TRUE)>>

C14_ScenarioB ==
    \A c \in callers :
        (/\ fn[c] = "check_connectivity"
         /\ max_retries = 2
         /\ Len(probes[c]) >= 3
         /\ SubSeq(probes[c], 1, 3) = ScenarioB)
        => /\ pc[c] = "returned"
           /\ result[c] = Ok(TRUE)
           /\ Len(probes[c]) = 3
           /\ sleeps[c] = <<500, 1000>>
           /\ events[c] = <<"attempt_start", "attempt_fail",
                            "wait_start", "wait_end",
                            "attempt_start", "attempt_fail",
                            "wait_start", "wait_end",
                            "attempt_start", "attempt_ok">>
           /\ elapsed[c] = 2000 + 500 + 2000 + 1000 + lastcond[c].latency * 1000

C14_Witness ==
    \E c \in callers :
        /\ PatientReturned(c)
        /\ max_retries = 2
        /\ probes[c] = ScenarioB
        /\ result[c] = Ok(TRUE)

\* C15: a call whose probes all time out returns Ok(false) after exactly
\* max_retries+1 probes and base_delay * (2^max_retries - 1) ms of
\* cumulative backoff: 3 probes and 1500 ms for max_retries = 2.
C15_ScenarioC ==
    \A c \in callers :
        (PatientReturned(c) /\ AllTimeout(probes[c]))
        => /\ result[c] = Ok(FALSE)
           /\ Len(probes[c]) = max_retries + 1
           /\ SumSeq(sleeps[c]) = RETRY_BASE_DELAY_MS * (2^max_retries - 1)
           /\ max_retries = 2 => (Len(probes[c]) = 3 /\ SumSeq(sleeps[c]) = 1500)

C15_Witness ==
    \E c \in callers :
        /\ PatientReturned(c)
        /\ max_retries = 2
        /\ probes[c] = <<ErrTimeout, ErrTimeout, ErrTimeout>>
        /\ SumSeq(sleeps[c]) = 1500

CancelledIsReleased ==
    \A c \in callers :
        pc[c] = "cancelled" =>
            /\ handles[c] = 0
            /\ timers[c] = 0
            /\ events[c][Len(events[c])] = "cancelled"

CancelledStaysPut ==
    \A c \in callers :
        pc[c] = "cancelled" =>
            /\ pc'[c] = "cancelled"
            /\ probes'[c] = probes[c]
            /\ sleeps'[c] = sleeps[c]
            /\ events'[c] = events[c]
            /\ handles'[c] = handles[c]
            /\ timers'[c] = timers[c]
            /\ elapsed'[c] = elapsed[c]
            /\ result'[c] = result[c]

CallState(c) ==
    <<fn[c], pc[c], attempt[c], probes[c], sleeps[c], result[c], lastcond[c],
      elapsed[c], events[c], handles[c], timers[c]>>

StepsAreLocal ==
    \A c \in callers : \A d \in callers :
        (c # d /\ pc'[c] # pc[c]) =>
            <<fn'[d], pc'[d], attempt'[d], probes'[d], sleeps'[d], result'[d],
              lastcond'[d], elapsed'[d], events'[d], handles'[d], timers'[d]>>
            = CallState(d)

CallsStartFresh ==
    \A c \in callers :
        (pc[c] \notin AttemptPcs /\ pc'[c] \in {"first_attempt", "quick_attempt"})
        => /\ attempt'[c] = 0
           /\ probes'[c] = <<>>
           /\ sleeps'[c] = <<>>
           /\ elapsed'[c] = 0
           /\ result'[c] = NoResult

OwnProbesDecide ==
    \A c \in callers : \A d \in callers :
        (/\ fn[c] = fn[d]
         /\ fn[c] # "none"
         /\ pc[c] # "cancelled" /\ pc[d] # "cancelled"
         /\ probes[c] = probes[d])
        => /\ Phase(c) = Phase(d)
           /\ sleeps[c] = sleeps[d]
           /\ result[c] = result[d]
           /\ attempt[c] = attempt[d]

C20_NeverPanics ==
    \A c \in callers :
        /\ pc[c] # "panicked"
        /\ \A i \in 1..Len(probes[c]) :
              /\ MatchFirst(probes[c][i]) # Panic
              /\ MatchRetry(probes[c][i]) # Panic

C20_Witness ==
    \E c \in callers :
        /\ PatientReturned(c)
        /\ max_retries >= 1
        /\ Len(probes[c]) = max_retries + 1
        /\ events[c][Len(events[c])] = "attempt_fail"
        /\ pc[c] # "panicked"

(* ------------------------------------------------------------------ *)
(* Keychain commands                                                  *)
(* ------------------------------------------------------------------ *)
MAX_KEYCHAIN_KEY_LENGTH == 256

MAX_KEYCHAIN_VALUE_LENGTH == 4096

MIN_KEYCHAIN_KEY_LENGTH == 1

\* how many different texts of one length the commands are given
NumTexts == 2

\* the lengths of the keys and values given: around both limits
KeyLens == {MIN_KEYCHAIN_KEY_LENGTH - 1, MIN_KEYCHAIN_KEY_LENGTH,
            MAX_KEYCHAIN_KEY_LENGTH, MAX_KEYCHAIN_KEY_LENGTH + 1}

ValueLens == {0, 1, MAX_KEYCHAIN_VALUE_LENGTH, MAX_KEYCHAIN_VALUE_LENGTH + 1}

Strings(lens) ==
    {Text(i, l) : i \in 1..NumTexts, l \in lens \ {0}}
        \cup (IF 0 \in lens THEN {EmptyText} ELSE {})

Keys == Strings(KeyLens)

Values == Strings(ValueLens)

keychain_store_error(e) == Msg("Keychain store failed: {}", <<>>, e)

keychain_retrieve_error(e) == Msg("Keychain retrieve failed: {}", <<>>, e)

keychain_remove_error(e) == Msg("Keychain remove failed: {}", <<>>, e)

\* format!("{}:{}", key, value): the key, a colon, the value
key_value_pair(key, value) ==
    [kind |-> "pair", id |-> value.id, len |-> key.len + 1 + value.len,
     key |-> key.id, klen |-> key.len]

validate_keychain_keyMut_MaxExclusive(key) ==
    IF key.len < MIN_KEYCHAIN_KEY_LENGTH
    THEN ErrMsg(Msg("Key length must be at least {} characters, got {}",
                    <<MIN_KEYCHAIN_KEY_LENGTH, key.len>>, ""))
    ELSE IF key.len >= MAX_KEYCHAIN_KEY_LENGTH
    THEN ErrMsg(Msg("Key length must be at most {} characters, got {}",
                    <<MAX_KEYCHAIN_KEY_LENGTH, key.len>>, ""))
    ELSE OkUnit
validate_keychain_key(key) ==
    IF key.len < MIN_KEYCHAIN_KEY_LENGTH
    THEN ErrMsg(Msg("Key length must be at least {} characters, got {}",
                    <<MIN_KEYCHAIN_KEY_LENGTH, key.len>>, ""))
    ELSE IF key.len > MAX_KEYCHAIN_KEY_LENGTH
    THEN ErrMsg(Msg("Key length must be at most {} characters, got {}",
                    <<MAX_KEYCHAIN_KEY_LENGTH, key.len>>, ""))
    ELSE OkUnit

validate_keychain_valueMut_MaxExclusive(value) ==
    IF value.len >= MAX_KEYCHAIN_VALUE_LENGTH
    THEN ErrMsg(Msg("Value length must be at most {} characters, got {}",
                    <<MAX_KEYCHAIN_VALUE_LENGTH, value.len>>, ""))
    ELSE OkUnit
validate_keychain_value(value) ==
    IF value.len > MAX_KEYCHAIN_VALUE_LENGTH
    THEN ErrMsg(Msg("Value length must be at most {} characters, got {}",
                    <<MAX_KEYCHAIN_VALUE_LENGTH, value.len>>, ""))
    ELSE OkUnit

\* The keystore plugin.  StoreRequest carries a value and nothing else, so
\* the plugin holds one entry; every call can fail on the platform's side.
KeystoreError == "keystore error"

\* what a command did: its reply, the entry afterwards, whether it called
\* the plugin
Done(reply, slot, called) == [reply |-> reply, slot |-> slot, called |-> called]

\* app.keystore().store(request): outcomes as [ok, err, slot]
keystore_store(slot, request) ==
    {[ok |-> TRUE, err |-> "", slot |-> request.value],
     [ok |-> FALSE, err |-> KeystoreError, slot |-> slot]}

\* app.keystore().retrieve(request): outcomes as [ok, err, value]; with
\* nothing stored it is an error (the Err arm of keychain_exists: "Key does
\* not exist in keychain")
keystore_retrieve(slot, request) ==
    {[ok |-> FALSE, err |-> KeystoreError, value |-> NoText]}
        \cup (IF slot = NoEntry THEN {}
              ELSE {[ok |-> TRUE, err |-> "", value |-> slot]})

\* app.keystore().remove(request): outcomes as [ok, err, slot]
keystore_remove(slot, request) ==
    {[ok |-> TRUE, err |-> "", slot |-> NoEntry],
     [ok |-> FALSE, err |-> KeystoreError, slot |-> slot]}

StoreRequest(value) == [value |-> value]

RetrieveRequest(service, user) == [service |-> service, user |-> user]

RemoveRequest(service, user) == [service |-> service, user |-> user]

\* Option<String>::unwrap_or_default()
unwrap_or_default(opt) == IF opt = NoText THEN EmptyText ELSE opt

keychain_storeMut_ValueFirst(slot, key, value) ==
    IF validate_keychain_value(value).tag = "Err"
    THEN {Done(validate_keychain_value(value), slot, FALSE)}
    ELSE IF validate_keychain_key(key).tag = "Err"
    THEN {Done(validate_keychain_key(key), slot, FALSE)}
    ELSE {Done(IF o.ok THEN OkUnit ELSE ErrMsg(keychain_store_error(o.err)),
               o.slot, TRUE) :
            o \in keystore_store(slot,
                      StoreRequest(key_value_pair(key, value)))}
keychain_store(slot, key, value) ==
    IF validate_keychain_key(key).tag = "Err"
    THEN {Done(validate_keychain_key(key), slot, FALSE)}
    ELSE IF validate_keychain_value(value).tag = "Err"
    THEN {Done(validate_keychain_value(value), slot, FALSE)}
    ELSE {Done(IF o.ok THEN OkUnit ELSE ErrMsg(keychain_store_error(o.err)),
               o.slot, TRUE) :
            o \in keystore_store(slot,
                      StoreRequest(key_value_pair(key, value)))}

keychain_retrieve(slot, key) ==
    IF validate_keychain_key(key).tag = "Err"
    THEN {Done(validate_keychain_key(key), slot, FALSE)}
    ELSE {Done(IF o.ok THEN OkText(unwrap_or_default(o.value))
                       ELSE ErrMsg(keychain_retrieve_error(o.err)),
               slot, TRUE) :
            o \in keystore_retrieve(slot, RetrieveRequest(key, key))}

keychain_remove(slot, key) ==
    IF validate_keychain_key(key).tag = "Err"
    THEN {Done(validate_keychain_key(key), slot, FALSE)}
    ELSE {Done(IF o.ok THEN OkUnit ELSE ErrMsg(keychain_remove_error(o.err)),
               o.slot, TRUE) :
            o \in keystore_remove(slot, RemoveRequest(key, key))}

keychain_exists(slot, key) ==
    IF validate_keychain_key(key).tag = "Err"
    THEN {Done(validate_keychain_key(key), slot, FALSE)}
    ELSE {Done(OkBool(o.ok), slot, TRUE) :
            o \in keystore_retrieve(slot, RetrieveRequest(key, key))}

(* ------------------------------------------------------------------ *)
(* Notifications                                                      *)
(* ------------------------------------------------------------------ *)
\* the target_os values the cfg attributes tell apart
Platforms == {"ios", "android", "other"}

\* the command unwound with a panic instead of replying
Panicked == [tag |-> "Panic", bool |-> FALSE, text |-> NoText, msg |-> NoMsg]

\* SystemTime::now() against UNIX_EPOCH: the system clock is set by the
\* device, on either side of the epoch
Clocks == {"since_epoch", "before_epoch"}

\* SystemTime::duration_since(UNIX_EPOCH): Err when the clock is earlier
duration_since(clock) == IF clock = "since_epoch" THEN "Ok" ELSE "Err"

\* a length far beyond any display limit
VeryLong == 10000

Titles == {EmptyText, Text(1, 1), Text(1, VeryLong)}

Bodies == {EmptyText, Text(2, VeryLong)}

\* Option<String>: None or Some(name)
Icons == {NoText, Text(3, 1)}

\* notifications::ios (placeholder implementation)
ios_show_notification(title, body, identifier) == OkUnit

ios_request_permission == OkBool(TRUE)

ios_check_permission == OkBool(TRUE)

\* notifications::android (placeholder implementation)
android_create_notification_channel == OkUnit

android_show_notification(title, body, channel, icon) == OkUnit

android_request_permission == OkBool(TRUE)

android_check_permission == OkBool(TRUE)

NotSupported == Msg("Notifications not supported on this platform", <<>>, "")

\* notifications::show_notification, one cfg branch per platform
show_notification(plat, clock, title, body, icon) ==
    IF plat = "ios"
    THEN IF duration_since(clock) = "Err"
         THEN Panicked                         \* .unwrap() of the Err
         ELSE ios_show_notification(title, body, "elulib_notification_{}")
    ELSE IF plat = "android"
    THEN android_show_notification(title, body, "elulib_default_channel", icon)
    ELSE ErrMsg(NotSupported)

request_permission(plat) ==
    IF plat = "ios" THEN ios_request_permission
    ELSE IF plat = "android" THEN android_request_permission
    ELSE OkBool(FALSE)

check_permission(plat) ==
    IF plat = "ios" THEN ios_check_permission
    ELSE IF plat = "android" THEN android_check_permission
    ELSE OkBool(FALSE)

\* notification_bridge::is_notification_supported
is_notification_supported(plat) == OkBool(plat \in {"ios", "android"})

(* ------------------------------------------------------------------ *)
(* The commands as the frontend invokes them                          *)
(* ------------------------------------------------------------------ *)
\* the state of the connectivity module
connVars == <<callers, max_retries, net, fn, pc, attempt, probes, sleeps,
              result, lastcond, elapsed, events, handles, timers>>

KeychainCmds == {"keychain_store", "keychain_retrieve", "keychain_remove",
                 "keychain_exists"}

\* the record of a keychain command
KeychainCall(cmd, key, value, d) ==
    [cmd |-> cmd, key |-> key, value |-> value, title |-> NoText,
     body |-> NoText, icon |-> NoText, called |-> d.called,
     result |-> d.reply]

\* the record of a notification command
NotificationCall(cmd, title, body, icon, reply) ==
    [cmd |-> cmd, key |-> NoText, value |-> NoText, title |-> title,
     body |-> body, icon |-> icon, called |-> FALSE, result |-> reply]

KeychainStore ==
    \E key \in Keys, value \in Values :
      \E d \in keychain_store(keystore, key, value) :
        /\ keystore' = d.slot
        /\ last' = KeychainCall("keychain_store", key, value, d)
        /\ UNCHANGED <<connVars, calc, platform, app, startup>>

KeychainRetrieve ==
    \E key \in Keys :
      \E d \in keychain_retrieve(keystore, key) :
        /\ keystore' = d.slot
        /\ last' = KeychainCall("keychain_retrieve", key, NoText, d)
        /\ UNCHANGED <<connVars, calc, platform, app, startup>>

KeychainRemove ==
    \E key \in Keys :
      \E d \in keychain_remove(keystore, key) :
        /\ keystore' = d.slot
        /\ last' = KeychainCall("keychain_remove", key, NoText, d)
        /\ UNCHANGED <<connVars, calc, platform, app, startup>>

KeychainExists ==
    \E key \in Keys :
      \E d \in keychain_exists(keystore, key) :
        /\ keystore' = d.slot
        /\ last' = KeychainCall("keychain_exists", key, NoText, d)
        /\ UNCHANGED <<connVars, calc, platform, app, startup>>

ShowNotification ==
    \E title \in Titles, body \in Bodies, icon \in Icons, clock \in Clocks :
        /\ last' = NotificationCall("show_notification", title, body, icon,
                       show_notification(platform, clock, title, body, icon))
        /\ UNCHANGED <<connVars, calc, platform, keystore, app, startup>>

RequestNotificationPermission ==
    /\ last' = NotificationCall("request_notification_permission", NoText,
                   NoText, NoText, request_permission(platform))
    /\ UNCHANGED <<connVars, calc, platform, keystore, app, startup>>

CheckNotificationPermission ==
    /\ last' = NotificationCall("check_notification_permission", NoText,
                   NoText, NoText, check_permission(platform))
    /\ UNCHANGED <<connVars, calc, platform, keystore, app, startup>>

IsNotificationSupported ==
    /\ last' = NotificationCall("is_notification_supported", NoText,
                   NoText, NoText, is_notification_supported(platform))
    /\ UNCHANGED <<connVars, calc, platform, keystore, app, startup>>

\* the application is up on some platform; no connectivity call is made
InitCommands ==
    /\ callers = {}
    /\ max_retries = MAX_CONNECTIVITY_RETRIES
    /\ net = NetConditions
    /\ Fresh
    /\ platform \in Platforms
    /\ keystore = NoEntry
    /\ last = NoCommand
    /\ app = "none"
    /\ startup = "none"
    /\ calc = NoCalc

NextCommands ==
    \/ KeychainStore
    \/ KeychainRetrieve
    \/ KeychainRemove
    \/ KeychainExists
    \/ ShowNotification
    \/ RequestNotificationPermission
    \/ CheckNotificationPermission
    \/ IsNotificationSupported

SpecCommands == InitCommands /\ [][NextCommands]_vars

(* ------------------------------------------------------------------ *)
(* Properties of the keychain and notification commands               *)
(* ------------------------------------------------------------------ *)
\* the latest command is a keychain command on a key that fails validation
KeyRejected ==
    /\ last.cmd \in KeychainCmds
    /\ validate_keychain_key(last.key).tag = "Err"

\* the latest command is a keychain_store of a value that fails validation
ValueRejected ==
    /\ last.cmd = "keychain_store"
    /\ validate_keychain_value(last.value).tag = "Err"

\* the value half of a stored "key:value" entry
PairValue(p) ==
    IF p.len - p.klen - 1 = 0 THEN EmptyText
    ELSE Text(p.id, p.len - p.klen - 1)

\* the entry was stored under this key
StoredUnder(p, key) ==
    /\ p.kind = "pair"
    /\ p.key = key.id
    /\ p.klen = key.len

\* C21: a keychain command rejects invalid input before touching the
\* keystore: with an invalid key every keychain command returns the key's
\* validation error without calling the keystore (for keychain_store also
\* when the value is invalid as well: the key is checked first), with a
\* valid key and an invalid value keychain_store returns the value's
\* validation error without calling the keystore, and a rejected command
\* leaves the stored entry unchanged.
C21_RejectsBeforeKeystore ==
    /\ [](KeyRejected =>
            /\ ~last.called
            /\ last.result = validate_keychain_key(last.key))
    /\ []((ValueRejected /\ ~KeyRejected) =>
            /\ ~last.called
            /\ last.result = validate_keychain_value(last.value))
    /\ [][(KeyRejected' \/ ValueRejected') => keystore' = keystore]_vars

C21_Witness ==
    /\ last.cmd = "keychain_store"
    /\ KeyRejected
    /\ ValueRejected
    /\ last.result.tag = "Err"
    /\ ~last.called
    /\ keystore # NoEntry

\* C22: validate_keychain_key accepts a key exactly when 1 <= len <= 256
\* (a command that validates only the key reaches the keystore exactly
\* then); a key of length 0 gets the error naming the minimum 1, a key
\* longer than 256 the error naming the maximum 256 and the actual length.
C22_KeyValidation ==
    last.cmd \in KeychainCmds \ {"keychain_store"} =>
          /\ validate_keychain_key(last.key) = OkUnit
                <=> (1 <= last.key.len /\ last.key.len <= 256)
          /\ last.called <=> (1 <= last.key.len /\ last.key.len <= 256)
          /\ last.key.len = 0 =>
                /\ last.result.tag = "Err"
                /\ last.result.msg.text
                      = "Key length must be at least {} characters, got {}"
                /\ last.result.msg.args = <<1, 0>>
          /\ last.key.len > 256 =>
                /\ last.result.tag = "Err"
                /\ last.result.msg.text
                      = "Key length must be at most {} characters, got {}"
                /\ last.result.msg.args = <<256, last.key.len>>

C22_Witness ==
    /\ last.cmd = "keychain_retrieve"
    /\ last.key.len = 257
    /\ last.result.tag = "Err"
    /\ last.result.msg.args = <<256, 257>>

\* C23: validate_keychain_value accepts a value exactly when len <= 4096,
\* the empty value included (keychain_store with a valid key reaches the
\* keystore exactly then); a longer value gets the error naming the
\* maximum 4096 and the actual length.
C23_ValueValidation ==
    (last.cmd = "keychain_store" /\ ~KeyRejected) =>
          /\ validate_keychain_value(last.value) = OkUnit
                <=> last.value.len <= 4096
          /\ last.value = EmptyText => last.called
          /\ last.called <=> last.value.len <= 4096
          /\ last.value.len > 4096 =>
                /\ last.result.tag = "Err"
                /\ last.result.msg.text
                      = "Value length must be at most {} characters, got {}"
                /\ last.result.msg.args = <<4096, last.value.len>>

C23_Witness ==
    /\ last.cmd = "keychain_store"
    /\ ~KeyRejected
    /\ last.value.len = 4097
    /\ last.result.tag = "Err"
    /\ last.result.msg.args = <<4096, 4097>>

\* C24: store/retrieve round trip: while the entry stored by a successful
\* keychain_store(key, value) is in the keystore, a successful
\* keychain_retrieve(key) returns exactly value; once the entry is removed,
\* keychain_exists(key) returns false.
C24_RoundTrip ==
    /\ (/\ last.cmd = "keychain_retrieve"
        /\ last.result.tag = "Ok"
        /\ StoredUnder(keystore, last.key))
          => last.result.text = PairValue(keystore)
    /\ (/\ last.cmd = "keychain_exists"
        /\ last.called
        /\ keystore = NoEntry)
          => last.result = OkBool(FALSE)

\* C25: show_notification succeeds for every title, body and icon exactly
\* on the platforms where is_notification_supported() is true, on every
\* other platform it returns the error saying notifications are not
\* supported, and request_permission / check_permission never return Err.
C25_NotificationsByPlatform ==
    /\ last.cmd = "show_notification" =>
          /\ last.result = OkUnit
                <=> is_notification_supported(platform) = OkBool(TRUE)
          /\ is_notification_supported(platform) # OkBool(TRUE)
                => last.result = ErrMsg(NotSupported)
    /\ last.cmd \in {"request_notification_permission",
                     "check_notification_permission"}
          => last.result.tag = "Ok"

(* ------------------------------------------------------------------ *)
(* The retry loop as a state machine                                  *)
(* ------------------------------------------------------------------ *)
\* where a caller stands in the machine
\* Start -> Attempting -> {Succeeded | WaitingToRetry -> Attempting | Exhausted}
MachineState(c) ==
    IF pc[c] = "idle" THEN "Start"
    ELSE IF fn[c] # "check_connectivity" THEN "Other"
    ELSE IF pc[c] \in {"first_attempt", "retry_attempt"} THEN "Attempting"
    ELSE IF pc[c] = "sleep" THEN "WaitingToRetry"
    ELSE IF pc[c] = "returned" /\ result[c] = Ok(TRUE) THEN "Succeeded"
    ELSE IF pc[c] = "returned" /\ result[c] = Ok(FALSE) THEN "Exhausted"
    ELSE "Other"

\* the result of the latest probe of a call
LastProbe(c) == probes[c][Len(probes[c])]

\* C26: every execution of check_connectivity() is a path of the machine:
\* a call enters at Start -> Attempting; a completed probe takes Attempting
\* to Succeeded when it is Ok(true), to WaitingToRetry when it failed and
\* fewer than max_retries + 1 probes were made, to Exhausted when it failed
\* and max_retries + 1 were made; the sleep's end takes WaitingToRetry to
\* Attempting; nothing leaves Succeeded or Exhausted, and an execution makes
\* no other move (a dropped call just stops where it is).
C26_StateMachine ==
    [][\A c \in callers :
         (/\ fn'[c] = "check_connectivity"
          /\ pc'[c] # "cancelled"
          /\ CallState(c)' # CallState(c))
         =>
         LET from == IF pc'[c] = "first_attempt" THEN "Start"
                     ELSE MachineState(c)
             to == MachineState(c)'
         IN  \/ from = "Start" /\ to = "Attempting"
             \/ /\ from = "Attempting"
                /\ to = "Succeeded"
                /\ LastProbe(c)' = Ok(TRUE)
             \/ /\ from = "Attempting"
                /\ to = "WaitingToRetry"
                /\ IsFailure(LastProbe(c)')
                /\ Len(probes'[c]) < max_retries + 1
             \/ /\ from = "Attempting"
                /\ to = "Exhausted"
                /\ IsFailure(LastProbe(c)')
                /\ Len(probes'[c]) = max_retries + 1
             \/ /\ from = "WaitingToRetry"
                /\ to = "Attempting"
                /\ probes'[c] = probes[c]]_vars

C26_Witness ==
    \E c \in callers :
        /\ MachineState(c) = "Exhausted"
        /\ Len(sleeps[c]) = 2
        /\ Len(probes[c]) = 3
        /\ events[c][Len(events[c])] = "attempt_fail"

\* C27: one probe races the connect against the timeout: a connect that
\* establishes before the timeout gives Ok(true), one that fails before the
\* timeout gives Err(Io(e)) with its error, and one still pending when the
\* timeout elapses gives Err(Timeout).
C27_ProbeRace ==
    \A c \in callers :
        (Len(probes[c]) >= 1 /\ lastcond[c] # NoCond) =>
            /\ (/\ lastcond[c].latency < CONNECTIVITY_TIMEOUT_SECS
                /\ lastcond[c].completion = "established")
                  => LastProbe(c) = Ok(TRUE)
            /\ (/\ lastcond[c].latency < CONNECTIVITY_TIMEOUT_SECS
                /\ lastcond[c].completion \in IoErrors)
                  => LastProbe(c) = ErrIo(lastcond[c].completion)
            /\ lastcond[c].latency > CONNECTIVITY_TIMEOUT_SECS
                  => LastProbe(c) = ErrTimeout

C27_Witness ==
    \E c \in callers :
        /\ Len(probes[c]) = 3
        /\ probes[c][1] = ErrTimeout
        /\ probes[c][2] = ErrIo("ConnectionRefused")
        /\ probes[c][3] = Ok(TRUE)
        /\ lastcond[c].latency < CONNECTIVITY_TIMEOUT_SECS

\* C29: the result of check_connectivity() characterises the attempts made:
\* Ok(false) only after exactly max_retries + 1 probes that all failed,
\* Ok(true) only when the last probe made was Ok(true) and every earlier
\* probe of the call failed.
C29_ResultCharacterisesAttempts ==
    \A c \in callers :
        PatientReturned(c) =>
            /\ result[c] = Ok(FALSE) =>
                  /\ Len(probes[c]) = max_retries + 1
                  /\ AllFailed(probes[c])
            /\ result[c] = Ok(TRUE) =>
                  /\ Len(probes[c]) >= 1
                  /\ LastProbe(c) = Ok(TRUE)
                  /\ \A i \in 1..(Len(probes[c]) - 1) : IsFailure(probes[c][i])

C29_Witness ==
    \E c \in callers :
        /\ PatientReturned(c)
        /\ result[c] = Ok(TRUE)
        /\ Len(probes[c]) = 2
        /\ IsFailure(probes[c][1])
        /\ max_retries = 3

StartupCaller == 1

\* the arm of the spawned task's match that handles the check's result;
\* each arm logs and nothing else
StartupMatch(r) ==
    IF r = Ok(TRUE) THEN "logged_info"
    ELSE IF r = Ok(FALSE) THEN "logged_warn"
    ELSE "logged_error"

\* the spawned task has run to its end
StartupOver == {"logged_info", "logged_warn", "logged_error"}

\* tauri::async_runtime::spawn(task) hands the task to the runtime and
\* returns at once, whatever state the task is in
SpawnReturnsMut_BlockOn(task) == task \in StartupOver
SpawnReturns(task) == TRUE

\* .run(context) fails before the setup hook is reached: run() returns
\* Err(AppError::Tauri(e))
RuntimeFails ==
    /\ app = "starting"
    /\ app' = "failed"
    /\ UNCHANGED <<connVars, calc, platform, keystore, last, startup>>

\* the setup hook runs up to and including the spawn
SetupSpawns ==
    /\ app = "starting"
    /\ app' = "setup"
    /\ startup' = "spawned"
    /\ UNCHANGED <<connVars, calc, platform, keystore, last>>

\* the setup hook logs and returns Ok(()); the application runs
SetupReturns ==
    /\ app = "setup"
    /\ SpawnReturns(startup)
    /\ app' = "running"
    /\ UNCHANGED <<connVars, calc, platform, keystore, last, startup>>

\* the runtime polls the spawned task for the first time
StartupTaskRuns ==
    /\ startup = "spawned"
    /\ startup' = "checking"
    /\ UNCHANGED <<connVars, calc, platform, keystore, last, app>>

\* the task calls connectivity::check_connectivity()
StartupCheckBegins ==
    /\ startup = "checking"
    /\ pc[StartupCaller] = "idle"
    /\ CallCheckConnectivity(StartupCaller)

\* the check is suspended at an .await and is resumed
StartupCheckProceeds ==
    /\ startup = "checking"
    /\ \/ FirstAttemptCompletes(StartupCaller)
       \/ SleepCompletes(StartupCaller)
       \/ RetryAttemptCompletes(StartupCaller)

\* the check has returned: the task matches on the result, logs and ends
StartupTaskLogs ==
    /\ startup = "checking"
    /\ pc[StartupCaller] = "returned"
    /\ startup' = StartupMatch(result[StartupCaller])
    /\ UNCHANGED <<connVars, calc, platform, keystore, last, app>>

InitStartup ==
    /\ callers = {StartupCaller}
    /\ max_retries \in 0..MaxRetriesCap
    /\ net = NetConditions
    /\ Fresh
    /\ platform \in Platforms
    /\ keystore = NoEntry
    /\ last = NoCommand
    /\ app = "starting"
    /\ startup = "none"
    /\ calc = NoCalc

NextStartup ==
    \/ RuntimeFails
    \/ SetupSpawns
    \/ SetupReturns
    \/ StartupTaskRuns
    \/ StartupCheckBegins
    \/ StartupCheckProceeds
    \/ StartupTaskLogs

SpecStartup == InitStartup /\ [][NextStartup]_vars

MaxRetryNumber == 66

\* overflow checks are on in a debug build and off in a release build
Builds == {"debug", "release"}

\* bit i of a small natural number
RECURSIVE BitOf(_, _)
BitOf(n, i) == IF i = 0 THEN n % 2 ELSE BitOf(n \div 2, i - 1)

\* an integer literal as a u64: its bits, least significant first
ToU64(n) == [i \in 0..(U64_BITS - 1) |-> BitOf(n, i)]

\* attempt - 1, the right operand of the shift
ShiftAmountMut_NoMinusOne(n) == n
ShiftAmount(n) == n - 1

\* x << k on u64: the shift amount overflows when k >= 64 and is then
\* taken modulo 64; bits moved past bit 63 are dropped
shl_u64(x, k) ==
    [val |-> [i \in 0..(U64_BITS - 1) |->
                 IF i >= k % U64_BITS THEN x[i - (k % U64_BITS)] ELSE 0],
     overflow |-> k >= U64_BITS]

\* the carry into bit i of a * y
RECURSIVE MulCarry(_, _, _)
MulCarry(a, y, i) ==
    IF i = 0 THEN 0 ELSE (a * y[i - 1] + MulCarry(a, y, i - 1)) \div 2

\* a * y on u64, a given by its value: the low 64 bits of the product, and
\* whether anything was carried out of bit 63
mul_u64(a, y) ==
    [val |-> [i \in 0..(U64_BITS - 1) |-> (a * y[i] + MulCarry(a, y, i)) % 2],
     overflow |-> MulCarry(a, y, U64_BITS) # 0]

\* let delay_ms = base_delay_ms * (1 << (attempt - 1)), as the build
\* evaluates it: an overflow panics in a debug build and wraps in a
\* release build
delay_ms_u64(n, build) ==
    LET sh == shl_u64(ToU64(1), ShiftAmount(n))
        pr == mul_u64(RETRY_BASE_DELAY_MS, sh.val)
    IN  IF sh.overflow /\ build = "debug"
        THEN [stage |-> "panicked", shifted |-> Zero64, delay |-> Zero64,
              shift_overflow |-> TRUE, mul_overflow |-> FALSE]
        ELSE IF pr.overflow /\ build = "debug"
        THEN [stage |-> "panicked", shifted |-> sh.val, delay |-> Zero64,
              shift_overflow |-> sh.overflow, mul_overflow |-> TRUE]
        ELSE [stage |-> "computed", shifted |-> sh.val, delay |-> pr.val,
              shift_overflow |-> sh.overflow, mul_overflow |-> pr.overflow]

\* the u64 is below 2^30
Small(x) == \A i \in 30..(U64_BITS - 1) : x[i] = 0

\* the number a small u64 stands for
RECURSIVE ValueFrom(_, _)
ValueFrom(x, i) == IF i >= 30 THEN 0 ELSE x[i] + 2 * ValueFrom(x, i + 1)

U64Value(x) == ValueFrom(x, 0)

\* the loop body evaluates the delay of retry calc.n
ComputeDelay ==
    /\ calc.stage = "loop_head"
    /\ LET d == delay_ms_u64(calc.n, calc.build)
       IN  calc' = [calc EXCEPT !.stage = d.stage,
                                !.shifted = d.shifted,
                                !.delay = d.delay,
                                !.shift_overflow = d.shift_overflow,
                                !.mul_overflow = d.mul_overflow]
    /\ UNCHANGED <<connVars, platform, keystore, last, app, startup>>

\* the sleep and the retry probe are over, the probe failed, and the loop
\* goes on to the next retry number
NextRetry ==
    /\ calc.stage = "computed"
    /\ InRange(calc.n + 1, max_retries)
    /\ calc' = [calc EXCEPT !.stage = "loop_head",
                            !.n = @ + 1,
                            !.prev = calc.delay,
                            !.shifted = Zero64,
                            !.delay = Zero64,
                            !.shift_overflow = FALSE,
                            !.mul_overflow = FALSE]
    /\ UNCHANGED <<connVars, platform, keystore, last, app, startup>>

\* the loop is entered with attempt = 1, under the configured number of
\* retries or under a larger one
InitDelay ==
    /\ callers = {}
    /\ max_retries \in {MAX_CONNECTIVITY_RETRIES, MaxRetryNumber}
    /\ net = NetConditions
    /\ Fresh
    /\ platform \in Platforms
    /\ keystore = NoEntry
    /\ last = NoCommand
    /\ app = "none"
    /\ startup = "none"
    /\ calc \in {[NoCalc EXCEPT !.stage = "loop_head", !.n = 1, !.build = b] :
                    b \in Builds}

NextDelay ==
    \/ ComputeDelay
    \/ NextRetry

SpecDelay == InitDelay /\ [][NextDelay]_vars

\* C31: for every retry number n in 1..=MAX_CONNECTIVITY_RETRIES the delay
\* base_delay_ms * (1 << (n - 1)) computed in u64 arithmetic overflows
\* neither in the shift nor in the multiplication (no panic, no wrap), the
\* value computed is exactly base_delay_ms * 2^(n-1), which is the delay
\* the retry loop sleeps, and it is twice the delay of the retry before.
C31_DelayDoesNotOverflow ==
    (calc.n \in 1..MAX_CONNECTIVITY_RETRIES /\ calc.stage # "loop_head") =>
        /\ calc.stage = "computed"
        /\ ~calc.shift_overflow
        /\ ~calc.mul_overflow
        /\ Small(calc.shifted)
        /\ U64Value(calc.shifted) = 2 ^ (calc.n - 1)
        /\ Small(calc.delay)
        /\ U64Value(calc.delay) = RETRY_BASE_DELAY_MS * 2 ^ (calc.n - 1)
        /\ U64Value(calc.delay) = DelayMs(calc.n)
        /\ calc.n >= 2 =>
              /\ U64Value(calc.delay) = 2 * U64Value(calc.prev)
              /\ U64Value(calc.delay) > U64Value(calc.prev)

C31_Witness ==
    /\ calc.stage = "computed"
    /\ calc.n = MAX_CONNECTIVITY_RETRIES
    /\ max_retries = MAX_CONNECTIVITY_RETRIES
    /\ U64Value(calc.prev) = 500
    /\ U64Value(calc.delay) = 1000
    /\ ~calc.mul_overflow

====
